---- MODULE Spec2Model ----
(***************************************************************************)
(* Time-bank system: the task lifecycle engine (exchange_service) and the  *)
(* balance transfer service (user_profile_service) over their two Redis    *)
(* stores.                                                                 *)
(*                                                                         *)
(* A handler of the exchange service is a coroutine: it runs without       *)
(* interruption between its awaits, so it is modelled as one action per    *)
(* segment between awaits (two awaits exist: the user-existence check and  *)
(* the transfer call).  A handler of the user profile service is modelled  *)
(* as one action per Redis command, the unit Redis serialises.             *)
(***************************************************************************)
EXTENDS Integers, Sequences, FiniteSets, Bags, TLC

(* ------------------------------ bounds -------------------------------- *)

\* The clock value from which no handler that would write a task is started
\* (each task write takes a timestamp and advances the clock).
MaxTime == 5

\* Transfers a run may request (by complete or directly); calls that request
\* none stay enabled.
MaxTransfers == 2

\* Concurrent request slots (handler instances in flight).
Procs == {"p1", "p2"}

\* User ids; InitUsers exist in the initial state, the rest can be created.
UserIds == {"u1", "u2", "u3"}
InitUsers == {"u1", "u2"}

\* Task ids uuid4 can hand out.
TaskIds == {"t1"}

\* Request inputs.
Offers == {0, 5, 11}
Transfers ==
    { [from_user_id |-> "u1", to_user_id |-> "u2", amount |-> 6],
      [from_user_id |-> "u1", to_user_id |-> "u1", amount |-> 6],
      [from_user_id |-> "u2", to_user_id |-> "u1", amount |-> 0],
      [from_user_id |-> "u3", to_user_id |-> "u2", amount |-> 6],
      [from_user_id |-> "u2", to_user_id |-> "u3", amount |-> 6] }
Names == {"None", "m"}
NoOffer == << >>
Patches ==
    { [title |-> "None", description |-> "None", time_credit_offer |-> NoOffer],
      [title |-> "b",    description |-> "None", time_credit_offer |-> <<0>>],
      [title |-> "None", description |-> "b",    time_credit_offer |-> <<4>>] }

(* ------------------------- program constants -------------------------- *)

INITIAL_TIME_CREDITS == 10

OPEN == "open"
PENDING == "pending"
IN_PROGRESS == "in_progress"
COMPLETED == "completed"
CANCELLED == "cancelled"

RequestState == {OPEN, PENDING, IN_PROGRESS, COMPLETED, CANCELLED}

(* ------------------------------- state -------------------------------- *)

VARIABLES
    users,      \* Redis "user:<id>" hashes: user id -> record
    tasks,      \* Redis "task:<id>" hashes: task id -> record
    tasks_all,  \* Redis set "tasks:all"
    now,        \* the clock read by datetime.now()
    pc,         \* per slot: where its handler stands
    req,        \* per slot: the request being served
    task_data,  \* per slot: the handler's local copy of the task hash
    xfer,       \* per slot: the transfer call and the transfer handler's locals
    res,        \* per slot: the response of the handler
    user_data,  \* per slot: update_user's local copy of the user hash
    ledger,     \* history: bag of the transfers the balance store has applied
    accepts     \* history: <<task id, acceptor>> of the accept calls answered 200

vars == <<users, tasks, tasks_all, now, pc, req, task_data, xfer, res,
          user_data, ledger, accepts>>

NoReq == [op |-> "none", task |-> "none", user |-> "none", to_user |-> "none",
          amount |-> 0, patch |-> [title |-> "None", description |-> "None",
                                   time_credit_offer |-> NoOffer]]

NoTask == [title |-> "", description |-> "", requested_by_user_id |-> "",
           accepted_by_user_id |-> "", time_credit_offer |-> 0, state |-> "",
           created_at |-> 0, updated_at |-> 0]

NoUser == [name |-> "", time_credits |-> 0]

NoXfer == [tpc |-> "none", for_task |-> "none", from_user_id |-> "none",
           to_user_id |-> "none", amount |-> 0, status |-> 0, detail |-> "",
           from_user_data |-> NoUser, to_user_data |-> NoUser,
           sender_credits |-> 0, receiver_credits |-> 0]

NoRes == [code |-> 0, kind |-> "none"]

Ok == [code |-> 200, kind |-> "ok"]

\* raise HTTPException(status_code = code): kind names the raise site's error.
HTTPException(code, kind) == [code |-> code, kind |-> kind]

Init ==
    /\ users = [u \in InitUsers |-> [name |-> "n", time_credits |-> INITIAL_TIME_CREDITS]]
    /\ tasks = << >>
    /\ tasks_all = {}
    /\ now = 1
    /\ pc = [p \in Procs |-> "idle"]
    /\ req = [p \in Procs |-> NoReq]
    /\ task_data = [p \in Procs |-> NoTask]
    /\ xfer = [p \in Procs |-> NoXfer]
    /\ res = [p \in Procs |-> NoRes]
    /\ user_data = [p \in Procs |-> NoUser]
    /\ ledger = EmptyBag
    /\ accepts = {}

(* ------------------------------ helpers ------------------------------- *)

\* hgetall returns {} for a missing key; the helpers turn that into None.
HasTask(task_id) == task_id \in DOMAIN tasks
get_task_from_redis(task_id) == IF HasTask(task_id) THEN tasks[task_id] ELSE NoTask

HasUser(user_id) == user_id \in DOMAIN users
get_user_from_redis(user_id) == IF HasUser(user_id) THEN users[user_id] ELSE NoUser

\* redis hset(key, mapping = full record): creates or overwrites the hash.
hset(store, key, mapping) ==
    [k \in DOMAIN store \cup {key} |-> IF k = key THEN mapping ELSE store[k]]

\* A variant of validate_user_exists that takes a failed request for a yes.
validate_user_exists_or_unknown(user_id) == {HasUser(user_id), TRUE}

\* The answers _validate_user_exists can give: status_code == 200 of GET
\* /users/{id}, or False when the request raises (transport error, timeout).
\* The user store is read when the handler resumes: users are never deleted,
\* so a read taken earlier in the await differs only by answering False.
validate_user_exists(user_id) == {HasUser(user_id), FALSE}

\* A response is delivered before the next event is taken (delivering it
\* commutes with every event of the other slots).
Ready == \A q \in Procs : pc[q] # "done"

\* Slot p can take a request.
Idle(p) == pc[p] = "idle" /\ Ready

\* Handlers whose transfer is requested or applied, for the MaxTransfers bound.
TransfersSoFar ==
    BagCardinality(ledger) + Cardinality({p \in Procs : xfer[p].tpc # "none"})

Finish(p, r) ==
    /\ pc' = [pc EXCEPT ![p] = "done"]
    /\ res' = [res EXCEPT ![p] = r]

Request(op, task_id, user_id) ==
    [NoReq EXCEPT !.op = op, !.task = task_id, !.user = user_id]

(* ------------------- exchange_service: the guards --------------------- *)

\* A variant of update_precondition that also lets an accepted task be edited.
update_precondition_pending(state) == state \in {OPEN, PENDING}

\* update_task: task_data["state"] != RequestState.OPEN raises.
update_precondition(state) == state = OPEN

\* accept_task: task_data["state"] != RequestState.OPEN raises.
accept_precondition(state) == state = OPEN

\* A variant of start_precondition that leaves every state to the caller
\* check.
start_precondition_any(state) == state \in RequestState

\* start_task: task_data["state"] != RequestState.PENDING raises.
start_precondition(state) == state = PENDING

\* complete_task: task_data["state"] != RequestState.IN_PROGRESS raises.
complete_precondition(state) == state = IN_PROGRESS

\* A variant of cancel_precondition that also lets a started task be cancelled.
cancel_precondition_started(state) == state \in {OPEN, PENDING, IN_PROGRESS}

\* cancel_task: state not in [OPEN, PENDING] raises.
cancel_precondition(state) == state \in {OPEN, PENDING}

\* start_task: started_by_user_id != accepted_by_user_id raises 403.
start_authorized(caller, td) == caller = td.accepted_by_user_id

\* A variant of complete_authorized that compares with the requester.
complete_authorized_requester(caller, td) == caller = td.requested_by_user_id

\* complete_task: completed_by_user_id != accepted_by_user_id raises 403.
complete_authorized(caller, td) == caller = td.accepted_by_user_id

\* cancel_task: cancelled_by_user_id != requested_by_user_id raises 403.
cancel_authorized(caller, td) == caller = td.requested_by_user_id

\* A variant of offer_rejected that lets an offer of nothing through.
offer_rejected_negative(offer) == offer < 0

\* A variant of offer_rejected that only refuses an offer below -1.
offer_rejected_below(offer) == offer < -1

\* create_task / update_task: time_credit_offer <= 0 raises 400.
offer_rejected(offer) == offer <= 0

\* A variant of transfer_success that takes every response for a success.
transfer_success_any_response(x) == x.tpc # "exc"

\* A variant of transfer_success that takes a raised post for a success when
\* the service had answered 200.
transfer_success_despite_raise(x) == x.status = 200

\* _transfer_credits: response.status_code == 200, or False when the post
\* raised (tpc = "exc").
transfer_success(x) == x.tpc # "exc" /\ x.status = 200

(* ------------------ exchange_service: the handlers -------------------- *)

\* POST /tasks, up to the await of _validate_user_exists.
create_task(p, requested_by_user_id, time_credit_offer) ==
    /\ Idle(p)
    /\ now < MaxTime
    /\ Cardinality(DOMAIN tasks) + Cardinality({q \in Procs : pc[q] = "create_await"})
          < Cardinality(TaskIds)
    /\ req' = [req EXCEPT ![p] =
                 [Request("create", "none", requested_by_user_id)
                    EXCEPT !.amount = time_credit_offer]]
    /\ IF offer_rejected(time_credit_offer)
         THEN Finish(p, HTTPException(400, "BadRequest"))
         ELSE /\ pc' = [pc EXCEPT ![p] = "create_await"]
              /\ UNCHANGED res
    /\ UNCHANGED <<users, tasks, tasks_all, now, task_data, xfer, ledger, accepts, user_data>>

\* POST /tasks, from the answer of _validate_user_exists to the response.
\* uuid4 is a fresh id: the model takes an unused one.
create_task_resume(p) ==
    /\ Ready
    /\ pc[p] = "create_await"
    /\ \E exists \in validate_user_exists(req[p].user) :
         IF ~exists
           THEN /\ Finish(p, HTTPException(404, "UserNotFound"))
                /\ UNCHANGED <<tasks, tasks_all, now>>
           ELSE LET task_id == CHOOSE t \in TaskIds : t \notin DOMAIN tasks
                    td == [title |-> "a", description |-> "a",
                           requested_by_user_id |-> req[p].user,
                           accepted_by_user_id |-> "",
                           time_credit_offer |-> req[p].amount,
                           state |-> OPEN,
                           created_at |-> now, updated_at |-> now]
                IN  /\ tasks' = hset(tasks, task_id, td)
                    /\ tasks_all' = tasks_all \cup {task_id}
                    /\ now' = now + 1
                    /\ Finish(p, Ok)
    /\ UNCHANGED <<users, req, task_data, xfer, ledger, accepts, user_data>>

\* The patch applied to the local copy, field by field (None leaves a field).
apply_patch(td, patch) ==
    [td EXCEPT
       !.title = IF patch.title # "None" THEN patch.title ELSE @,
       !.description = IF patch.description # "None" THEN patch.description ELSE @,
       !.time_credit_offer =
           IF patch.time_credit_offer # NoOffer THEN patch.time_credit_offer[1] ELSE @]

\* PATCH /tasks/{task_id}: no await, one segment.
update_task(p, task_id, task_update) ==
    /\ Idle(p)
    /\ req' = [req EXCEPT ![p] = [Request("update", task_id, "none")
                                    EXCEPT !.patch = task_update]]
    /\ LET td == get_task_from_redis(task_id) IN
         IF ~HasTask(task_id)
           THEN /\ Finish(p, HTTPException(404, "NotFound"))
                /\ UNCHANGED <<tasks, now>>
         ELSE IF ~update_precondition(td.state)
           THEN /\ Finish(p, HTTPException(400, "InvalidStateTransition"))
                /\ UNCHANGED <<tasks, now>>
         ELSE IF /\ task_update.time_credit_offer # NoOffer
                 /\ offer_rejected(task_update.time_credit_offer[1])
           THEN /\ Finish(p, HTTPException(400, "BadRequest"))
                /\ UNCHANGED <<tasks, now>>
         ELSE /\ now < MaxTime
              /\ tasks' = hset(tasks, task_id,
                               [apply_patch(td, task_update) EXCEPT !.updated_at = now])
              /\ now' = now + 1
              /\ Finish(p, Ok)
    /\ UNCHANGED <<users, tasks_all, task_data, xfer, ledger, accepts, user_data>>

\* POST /tasks/{task_id}/accept, up to the await of _validate_user_exists.
accept_task(p, task_id, acceptor_user_id) ==
    /\ Idle(p)
    /\ req' = [req EXCEPT ![p] = Request("accept", task_id, acceptor_user_id)]
    /\ LET td == get_task_from_redis(task_id) IN
         IF ~HasTask(task_id)
           THEN /\ Finish(p, HTTPException(404, "NotFound"))
                /\ UNCHANGED task_data
         ELSE IF ~accept_precondition(td.state)
           THEN /\ Finish(p, HTTPException(400, "InvalidStateTransition"))
                /\ UNCHANGED task_data
         ELSE /\ now < MaxTime
              /\ pc' = [pc EXCEPT ![p] = "accept_await"]
              /\ task_data' = [task_data EXCEPT ![p] = td]
              /\ UNCHANGED res
    /\ UNCHANGED <<users, tasks, tasks_all, now, xfer, ledger, accepts, user_data>>

\* A variant of accept_task_resume that stores the new state without the
\* acceptor.
accept_task_resume_unassigned(p) ==
    /\ Ready
    /\ pc[p] = "accept_await"
    /\ \E exists \in validate_user_exists(req[p].user) :
         IF ~exists
           THEN /\ Finish(p, HTTPException(404, "UserNotFound"))
                /\ UNCHANGED <<tasks, now, accepts>>
           ELSE /\ tasks' = hset(tasks, req[p].task,
                                 [task_data[p] EXCEPT
                                    !.state = PENDING,
                                    !.updated_at = now])
                /\ now' = now + 1
                /\ accepts' = accepts \cup {<<req[p].task, req[p].user>>}
                /\ Finish(p, Ok)
    /\ task_data' = [task_data EXCEPT ![p] = NoTask]
    /\ UNCHANGED <<users, tasks_all, req, xfer, ledger, user_data>>

\* POST /tasks/{task_id}/accept, from the oracle's answer to the response:
\* the local copy read before the await is written back whole.
accept_task_resume(p) ==
    /\ Ready
    /\ pc[p] = "accept_await"
    /\ \E exists \in validate_user_exists(req[p].user) :
         IF ~exists
           THEN /\ Finish(p, HTTPException(404, "UserNotFound"))
                /\ UNCHANGED <<tasks, now, accepts>>
           ELSE /\ tasks' = hset(tasks, req[p].task,
                                 [task_data[p] EXCEPT
                                    !.accepted_by_user_id = req[p].user,
                                    !.state = PENDING,
                                    !.updated_at = now])
                /\ now' = now + 1
                /\ accepts' = accepts \cup {<<req[p].task, req[p].user>>}
                /\ Finish(p, Ok)
    /\ task_data' = [task_data EXCEPT ![p] = NoTask]
    /\ UNCHANGED <<users, tasks_all, req, xfer, ledger, user_data>>

\* POST /tasks/{task_id}/start: no await, one segment.
start_task(p, task_id, started_by_user_id) ==
    /\ Idle(p)
    /\ req' = [req EXCEPT ![p] = Request("start", task_id, started_by_user_id)]
    /\ LET td == get_task_from_redis(task_id) IN
         IF ~HasTask(task_id)
           THEN /\ Finish(p, HTTPException(404, "NotFound"))
                /\ UNCHANGED <<tasks, now>>
         ELSE IF ~start_precondition(td.state)
           THEN /\ Finish(p, HTTPException(400, "InvalidStateTransition"))
                /\ UNCHANGED <<tasks, now>>
         ELSE IF ~start_authorized(started_by_user_id, td)
           THEN /\ Finish(p, HTTPException(403, "Forbidden"))
                /\ UNCHANGED <<tasks, now>>
         ELSE /\ now < MaxTime
              /\ tasks' = hset(tasks, task_id,
                               [td EXCEPT !.state = IN_PROGRESS, !.updated_at = now])
              /\ now' = now + 1
              /\ Finish(p, Ok)
    /\ UNCHANGED <<users, tasks_all, task_data, xfer, ledger, accepts, user_data>>

\* POST /tasks/{task_id}/complete, up to the await of _transfer_credits: the
\* post of the transfer request is in flight when the segment ends.
complete_task(p, task_id, completed_by_user_id) ==
    /\ Idle(p)
    /\ req' = [req EXCEPT ![p] = Request("complete", task_id, completed_by_user_id)]
    /\ LET td == get_task_from_redis(task_id) IN
         IF ~HasTask(task_id)
           THEN /\ Finish(p, HTTPException(404, "NotFound"))
                /\ UNCHANGED <<task_data, xfer>>
         ELSE IF ~complete_precondition(td.state)
           THEN /\ Finish(p, HTTPException(400, "InvalidStateTransition"))
                /\ UNCHANGED <<task_data, xfer>>
         ELSE IF ~complete_authorized(completed_by_user_id, td)
           THEN /\ Finish(p, HTTPException(403, "Forbidden"))
                /\ UNCHANGED <<task_data, xfer>>
         ELSE /\ now < MaxTime
              /\ TransfersSoFar < MaxTransfers
              /\ pc' = [pc EXCEPT ![p] = "complete_await"]
              /\ task_data' = [task_data EXCEPT ![p] = td]
              /\ xfer' = [xfer EXCEPT ![p] =
                            [NoXfer EXCEPT !.tpc = "req",
                                           !.for_task = task_id,
                                           !.from_user_id = td.requested_by_user_id,
                                           !.to_user_id = td.accepted_by_user_id,
                                           !.amount = td.time_credit_offer]]
              /\ UNCHANGED res
    /\ UNCHANGED <<users, tasks, tasks_all, now, ledger, accepts, user_data>>

\* The post of _transfer_credits raises (connection error, timeout): before
\* the service took the request, or with the service's response lost.
transfer_exception(p) ==
    /\ Ready
    /\ pc[p] = "complete_await"
    /\ xfer[p].tpc \in {"req", "ok", "fail"}
    /\ xfer' = [xfer EXCEPT ![p].tpc = "exc"]
    /\ UNCHANGED <<users, tasks, tasks_all, now, pc, req, task_data, res, ledger, accepts, user_data>>

\* POST /tasks/{task_id}/complete, from the return of _transfer_credits to
\* the response: the local copy read before the await is written back whole.
complete_task_resume(p) ==
    /\ Ready
    /\ pc[p] = "complete_await"
    /\ xfer[p].tpc \in {"ok", "fail", "exc"}
    /\ IF ~transfer_success(xfer[p])
         THEN /\ Finish(p, HTTPException(400, "TransferFailed"))
              /\ UNCHANGED <<tasks, now>>
         ELSE /\ tasks' = hset(tasks, req[p].task,
                               [task_data[p] EXCEPT !.state = COMPLETED,
                                                    !.updated_at = now])
              /\ now' = now + 1
              /\ Finish(p, Ok)
    /\ task_data' = [task_data EXCEPT ![p] = NoTask]
    /\ xfer' = [xfer EXCEPT ![p] = NoXfer]
    /\ UNCHANGED <<users, tasks_all, req, ledger, accepts, user_data>>

\* POST /tasks/{task_id}/cancel: no await, one segment.
cancel_task(p, task_id, cancelled_by_user_id) ==
    /\ Idle(p)
    /\ req' = [req EXCEPT ![p] = Request("cancel", task_id, cancelled_by_user_id)]
    /\ LET td == get_task_from_redis(task_id) IN
         IF ~HasTask(task_id)
           THEN /\ Finish(p, HTTPException(404, "NotFound"))
                /\ UNCHANGED <<tasks, now>>
         ELSE IF ~cancel_precondition(td.state)
           THEN /\ Finish(p, HTTPException(400, "InvalidStateTransition"))
                /\ UNCHANGED <<tasks, now>>
         ELSE IF ~cancel_authorized(cancelled_by_user_id, td)
           THEN /\ Finish(p, HTTPException(403, "Forbidden"))
                /\ UNCHANGED <<tasks, now>>
         ELSE /\ now < MaxTime
              /\ tasks' = hset(tasks, task_id,
                               [td EXCEPT !.state = CANCELLED, !.updated_at = now])
              /\ now' = now + 1
              /\ Finish(p, Ok)
    /\ UNCHANGED <<users, tasks_all, task_data, xfer, ledger, accepts, user_data>>

\* The response has gone to the caller: the slot is free for the next request.
Return(p) ==
    /\ pc[p] = "done"
    /\ pc' = [pc EXCEPT ![p] = "idle"]
    /\ req' = [req EXCEPT ![p] = NoReq]
    /\ res' = [res EXCEPT ![p] = NoRes]
    /\ UNCHANGED <<users, tasks, tasks_all, now, task_data, xfer, ledger, accepts, user_data>>

(* ---------------- user_profile_service: the handlers ------------------ *)

\* POST /users: a fresh uuid4 with the initial credits.
create_user(p) ==
    /\ Idle(p)
    /\ \E user_id \in UserIds \ DOMAIN users :
         users' = hset(users, user_id,
                       [name |-> "n", time_credits |-> INITIAL_TIME_CREDITS])
    /\ req' = [req EXCEPT ![p] = Request("create_user", "none", "none")]
    /\ Finish(p, Ok)
    /\ UNCHANGED <<tasks, tasks_all, now, task_data, xfer, ledger, accepts, user_data>>

\* POST /users/transfer called by a client of the user profile service.
transfer_credits(p, from_user_id, to_user_id, amount) ==
    /\ Idle(p)
    /\ TransfersSoFar < MaxTransfers
    /\ req' = [req EXCEPT ![p] = [Request("transfer", "none", from_user_id)
                                    EXCEPT !.to_user = to_user_id, !.amount = amount]]
    /\ pc' = [pc EXCEPT ![p] = "transfer_await"]
    /\ xfer' = [xfer EXCEPT ![p] =
                  [NoXfer EXCEPT !.tpc = "req",
                                 !.from_user_id = from_user_id,
                                 !.to_user_id = to_user_id,
                                 !.amount = amount]]
    /\ UNCHANGED <<users, tasks, tasks_all, now, task_data, res, ledger, accepts, user_data>>

TransferFail(p, code, detail) ==
    xfer' = [xfer EXCEPT ![p].tpc = "fail", ![p].status = code, ![p].detail = detail]

\* A variant of amount_rejected that lets a transfer of nothing through.
amount_rejected_negative(amount) == amount < 0

\* transfer_credits: amount <= 0 raises 400.
amount_rejected(amount) == amount <= 0

\* A variant of insufficient_credits that compares with the credits left over.
insufficient_credits_zero(sender_credits, amount) == sender_credits = 0

\* A variant of insufficient_credits that only refuses an empty sender.
insufficient_credits_empty(sender_credits, amount) == sender_credits <= 0

\* transfer_credits: sender_credits < transfer.amount raises 400.
insufficient_credits(sender_credits, amount) == sender_credits < amount

\* transfer_credits, first Redis command: the amount check and the read of
\* the sender's hash.
transfer_read_from(p) ==
    /\ Ready
    /\ xfer[p].tpc = "req"
    /\ IF amount_rejected(xfer[p].amount)
         THEN TransferFail(p, 400, "BadRequest")
       ELSE IF ~HasUser(xfer[p].from_user_id)
         THEN TransferFail(p, 404, "UserNotFound")
       ELSE xfer' = [xfer EXCEPT
                       ![p].tpc = "read_to",
                       ![p].from_user_data = get_user_from_redis(xfer[p].from_user_id)]
    /\ UNCHANGED <<users, tasks, tasks_all, now, pc, req, task_data, res, ledger, accepts, user_data>>

\* transfer_credits, second Redis command: the read of the receiver's hash,
\* the funds check and the new balances computed into the two local copies.
transfer_read_to(p) ==
    /\ Ready
    /\ xfer[p].tpc = "read_to"
    /\ LET x == xfer[p]
           to_user_data == get_user_from_redis(x.to_user_id)
           sender_credits == x.from_user_data.time_credits
       IN  IF ~HasUser(x.to_user_id)
             THEN TransferFail(p, 404, "UserNotFound")
           ELSE IF insufficient_credits(sender_credits, x.amount)
             THEN TransferFail(p, 400, "InsufficientFunds")
           ELSE xfer' = [xfer EXCEPT
                   ![p].tpc = "write_from",
                   ![p].sender_credits = sender_credits,
                   ![p].receiver_credits = to_user_data.time_credits,
                   ![p].from_user_data =
                       [x.from_user_data EXCEPT !.time_credits = sender_credits - x.amount],
                   ![p].to_user_data =
                       [to_user_data EXCEPT !.time_credits = @ + x.amount]]
    /\ UNCHANGED <<users, tasks, tasks_all, now, pc, req, task_data, res, ledger, accepts, user_data>>

\* transfer_credits, third Redis command: hset of the sender's hash.
transfer_write_from(p) ==
    /\ Ready
    /\ xfer[p].tpc = "write_from"
    /\ users' = hset(users, xfer[p].from_user_id, xfer[p].from_user_data)
    /\ xfer' = [xfer EXCEPT ![p].tpc = "write_to"]
    /\ UNCHANGED <<tasks, tasks_all, now, pc, req, task_data, res, ledger, accepts, user_data>>

\* transfer_credits, fourth Redis command: hset of the receiver's hash, and
\* the 200 response.
transfer_write_to(p) ==
    /\ Ready
    /\ xfer[p].tpc = "write_to"
    /\ users' = hset(users, xfer[p].to_user_id, xfer[p].to_user_data)
    /\ xfer' = [xfer EXCEPT ![p].tpc = "ok", ![p].status = 200]
    /\ ledger' = ledger (+) SetToBag({[task |-> xfer[p].for_task,
                                       from_user_id |-> xfer[p].from_user_id,
                                       to_user_id |-> xfer[p].to_user_id,
                                       amount |-> xfer[p].amount]})
    /\ UNCHANGED <<tasks, tasks_all, now, pc, req, task_data, res, accepts, user_data>>

\* POST /users/transfer answers its direct caller.
transfer_credits_return(p) ==
    /\ Ready
    /\ pc[p] = "transfer_await"
    /\ xfer[p].tpc \in {"ok", "fail"}
    /\ Finish(p, IF xfer[p].tpc = "ok" THEN Ok
                 ELSE HTTPException(xfer[p].status, xfer[p].detail))
    /\ xfer' = [xfer EXCEPT ![p] = NoXfer]
    /\ UNCHANGED <<users, tasks, tasks_all, now, req, task_data, ledger, accepts, user_data>>

\* GET /users/{user_id}/balance: one Redis command, the read of the hash.
UserBalanceResponse(user_id, time_credits) ==
    [code |-> 200, kind |-> "balance", id |-> user_id, time_credits |-> time_credits]

get_user_balance(p, user_id) ==
    /\ Idle(p)
    /\ req' = [req EXCEPT ![p] = Request("balance", "none", user_id)]
    /\ IF ~HasUser(user_id)
         THEN Finish(p, HTTPException(404, "UserNotFound"))
         ELSE Finish(p, UserBalanceResponse(user_id,
                                            get_user_from_redis(user_id).time_credits))
    /\ UNCHANGED <<users, tasks, tasks_all, now, task_data, xfer, user_data, ledger, accepts>>

\* PATCH /users/{user_id}, first Redis command: the read of the hash, and
\* the patch applied to the local copy (None leaves the name).
update_user(p, user_id, name) ==
    /\ Idle(p)
    /\ req' = [req EXCEPT ![p] = Request("update_user", "none", user_id)]
    /\ IF ~HasUser(user_id)
         THEN /\ Finish(p, HTTPException(404, "UserNotFound"))
              /\ UNCHANGED user_data
         ELSE /\ pc' = [pc EXCEPT ![p] = "update_user_hset"]
              /\ user_data' = [user_data EXCEPT ![p] =
                                 [get_user_from_redis(user_id) EXCEPT
                                    !.name = IF name # "None" THEN name ELSE @]]
              /\ UNCHANGED res
    /\ UNCHANGED <<users, tasks, tasks_all, now, task_data, xfer, ledger, accepts>>

\* PATCH /users/{user_id}, second Redis command: hset of the whole local
\* copy, time_credits included.
update_user_hset(p) ==
    /\ Ready
    /\ pc[p] = "update_user_hset"
    /\ users' = hset(users, req[p].user, user_data[p])
    /\ user_data' = [user_data EXCEPT ![p] = NoUser]
    /\ Finish(p, Ok)
    /\ UNCHANGED <<tasks, tasks_all, now, req, task_data, xfer, ledger, accepts>>

(* --------------------------- specifications --------------------------- *)

\* A request of the task lifecycle, or the creation of a user, arrives at
\* slot p.
Begin(p) ==
    \/ \E u \in UserIds, o \in Offers : create_task(p, u, o)
    \/ \E t \in TaskIds, d \in Patches : update_task(p, t, d)
    \/ \E t \in TaskIds, u \in UserIds : accept_task(p, t, u)
    \/ \E t \in TaskIds, u \in UserIds : start_task(p, t, u)
    \/ \E t \in TaskIds, u \in UserIds : complete_task(p, t, u)
    \/ \E t \in TaskIds, u \in UserIds : cancel_task(p, t, u)
    \/ create_user(p)

\* The handler of slot p, or the service it awaits, takes its next step.
Step(p) ==
    \/ create_task_resume(p)
    \/ accept_task_resume(p)
    \/ complete_task_resume(p)
    \/ transfer_exception(p)
    \/ transfer_read_from(p)
    \/ transfer_read_to(p)
    \/ transfer_write_from(p)
    \/ transfer_write_to(p)

\* The requests of the task lifecycle and the creation of users, served
\* concurrently.
Next == \E p \in Procs : Begin(p) \/ Step(p) \/ Return(p)

Spec == Init /\ [][Next]_vars

\* A request of a client of the user profile service arrives at slot p, or
\* its handler takes its next step.
Client(p) ==
    \/ \E t \in Transfers :
          transfer_credits(p, t.from_user_id, t.to_user_id, t.amount)
    \/ transfer_credits_return(p)
    \/ \E u \in UserIds : get_user_balance(p, u)
    \/ \E u \in UserIds, n \in Names : update_user(p, u, n)
    \/ update_user_hset(p)

\* The handler of POST /users/transfer takes its next Redis command.
Service(p) ==
    \/ transfer_read_from(p)
    \/ transfer_read_to(p)
    \/ transfer_write_from(p)
    \/ transfer_write_to(p)

\* The user profile service alone, its requests served concurrently.
NextBank == \E p \in Procs : create_user(p) \/ Client(p) \/ Service(p) \/ Return(p)

SpecBank == Init /\ [][NextBank]_vars

\* Requests are served one at a time: each runs to completion before the
\* next starts.
AllIdle == \A q \in Procs : pc[q] = "idle"

NextSeq ==
    \E p \in Procs :
       \/ AllIdle /\ \E u \in UserIds, o \in Offers : create_task(p, u, o)
       \/ AllIdle /\ \E t \in TaskIds, d \in Patches : update_task(p, t, d)
       \/ AllIdle /\ \E t \in TaskIds, u \in UserIds : accept_task(p, t, u)
       \/ AllIdle /\ \E t \in TaskIds, u \in UserIds : start_task(p, t, u)
       \/ AllIdle /\ \E t \in TaskIds, u \in UserIds : complete_task(p, t, u)
       \/ AllIdle /\ \E t \in TaskIds, u \in UserIds : cancel_task(p, t, u)
       \/ AllIdle /\ create_user(p)
       \/ Step(p)
       \/ Return(p)

SpecSeq == Init /\ [][NextSeq]_vars

\* The user profile service alone, its requests served one at a time.
NextBankSeq ==
    \E p \in Procs :
       \/ AllIdle /\ create_user(p)
       \/ AllIdle /\ \E t \in Transfers :
                        transfer_credits(p, t.from_user_id, t.to_user_id, t.amount)
       \/ AllIdle /\ \E u \in UserIds : get_user_balance(p, u)
       \/ AllIdle /\ \E u \in UserIds, n \in Names : update_user(p, u, n)
       \/ update_user_hset(p)
       \/ transfer_credits_return(p)
       \/ Service(p)
       \/ Return(p)

SpecBankSeq == Init /\ [][NextBankSeq]_vars

(* ------------------------------ claims -------------------------------- *)

LifecycleOps == {"update", "accept", "start", "complete", "cancel"}

\* The steps of the state graph of section 4.1.
LegalSteps ==
    { <<OPEN, PENDING>>, <<PENDING, IN_PROGRESS>>, <<IN_PROGRESS, COMPLETED>>,
      <<OPEN, CANCELLED>>, <<PENDING, CANCELLED>> }

\* The precondition states of the operations, from the table of section 4.1.
ValidPrecondition(op, state) ==
    CASE op \in {"update", "accept"} -> state = OPEN
      [] op = "start" -> state = PENDING
      [] op = "complete" -> state = IN_PROGRESS
      [] op = "cancel" -> state \in {OPEN, PENDING}
      [] OTHER -> TRUE

\* Slot p has answered the request op on task t with the error kind.
Answered(p, op, kind) ==
    /\ pc[p] = "done"
    /\ req[p].op = op
    /\ res[p].kind = kind

\* The transfers between two different users that the balance store has
\* applied on behalf of task t: each debited the requester and credited the
\* acceptor.
Settlements(t) ==
    {e \in BagToSet(ledger) : e.task = t /\ e.from_user_id # e.to_user_id}

RECURSIVE SumCopies(_)
SumCopies(S) ==
    IF S = {} THEN 0
    ELSE LET e == CHOOSE x \in S : TRUE
         IN  CopiesIn(e, ledger) + SumCopies(S \ {e})

\* Slot p starts serving a request in this step.
Arrives(p) == pc[p] = "idle" /\ pc'[p] # "idle"

\* A step that writes no store and records no transfer.
NoEffect ==
    /\ tasks' = tasks
    /\ tasks_all' = tasks_all
    /\ users' = users
    /\ ledger' = ledger

\* C1: with the operations run one at a time, the stored state of a task
\* changes only along OPEN->PENDING, PENDING->IN_PROGRESS,
\* IN_PROGRESS->COMPLETED, OPEN->CANCELLED, PENDING->CANCELLED; a task is
\* never removed, and a COMPLETED or CANCELLED task keeps its state.
C1_OnlyLegalTransitions ==
    [][\A t \in DOMAIN tasks :
          /\ t \in DOMAIN tasks'
          /\ tasks'[t].state # tasks[t].state
               => <<tasks[t].state, tasks'[t].state>> \in LegalSteps]_vars

\* C1 witness: a start was refused on a task that had reached CANCELLED.
C1_Witness ==
    \E p \in Procs :
       /\ Answered(p, "start", "InvalidStateTransition")
       /\ tasks[req[p].task].state = CANCELLED

\* C2: two accept calls on the same task by different users never both
\* report success.
C2_OneAcceptSucceeds ==
    \A a, b \in accepts : a[1] = b[1] => a[2] = b[2]

\* C3: a transfer that succeeds debits the sender by exactly the amount,
\* credits the receiver by exactly the amount and keeps the sum of the two
\* balances, for every pair of parties (operations run one at a time, so the
\* balances the transfer read are the balances before the call).
C3_Conservation ==
    [][\A p \in Procs :
          (xfer[p].tpc = "write_to" /\ xfer'[p].tpc = "ok") =>
             LET f == xfer[p].from_user_id
                 t == xfer[p].to_user_id
                 a == xfer[p].amount
             IN  /\ users'[f].time_credits = xfer[p].sender_credits - a
                 /\ users'[t].time_credits = xfer[p].receiver_credits + a
                 /\ users'[f].time_credits + users'[t].time_credits
                      = xfer[p].sender_credits + xfer[p].receiver_credits]_vars

\* C4: with the operations run one at a time, a complete call whose
\* requester holds less than the offer when the transfer service takes the
\* request is refused by the service with InsufficientFunds and ends with
\* TransferFailed; no step of the call changes a task or a balance, and the
\* task is still IN_PROGRESS.
C4_FailureAtomicity ==
    [][\A p \in Procs :
          ( /\ pc[p] = "complete_await"
            /\ \/ /\ xfer[p].tpc \in {"req", "read_to"}
                  /\ users[xfer[p].from_user_id].time_credits < xfer[p].amount
               \/ xfer[p].tpc = "fail" )
          => /\ NoEffect
             /\ tasks[req[p].task].state = IN_PROGRESS
             /\ xfer'[p].tpc \in {"req", "read_to", "fail", "exc", "none"}
             /\ xfer'[p].tpc = "fail" => xfer'[p].detail = "InsufficientFunds"
             /\ pc'[p] # "complete_await"
                  => /\ pc'[p] = "done"
                     /\ res'[p] = HTTPException(400, "TransferFailed")]_vars

\* C4 witness: a complete has failed on a task whose requester cannot pay.
C4_Witness ==
    \E p \in Procs :
       /\ Answered(p, "complete", "TransferFailed")
       /\ tasks[req[p].task].state = IN_PROGRESS
       /\ users[tasks[req[p].task].requested_by_user_id].time_credits
            < tasks[req[p].task].time_credit_offer

\* C5: when complete resumes without a 200 response of the transfer call
\* (error response, or the post raised), it writes no task, answers with an
\* error and issues no further transfer request.
C5_UnconfirmedTransferNotCompleted ==
    [][\A p \in Procs :
          ( /\ pc[p] = "complete_await"
            /\ pc'[p] # "complete_await"
            /\ xfer[p].tpc # "ok" )
          => /\ NoEffect
             /\ pc'[p] = "done"
             /\ res'[p] = HTTPException(400, "TransferFailed")
             /\ xfer'[p].tpc = "none"]_vars

\* C5 witness: a complete has failed although the balance store applied its
\* transfer (the response was lost), and the task is still IN_PROGRESS.
C5_Witness ==
    \E p \in Procs :
       /\ Answered(p, "complete", "TransferFailed")
       /\ tasks[req[p].task].state = IN_PROGRESS
       /\ Settlements(req[p].task) # {}

\* C6: a task stored as COMPLETED has had a transfer of its offer from its
\* requester to its acceptor applied by the balance store.
C6_CompletedImpliesPaid ==
    \A t \in DOMAIN tasks :
       tasks[t].state = COMPLETED =>
          CopiesIn([task |-> t,
                    from_user_id |-> tasks[t].requested_by_user_id,
                    to_user_id |-> tasks[t].accepted_by_user_id,
                    amount |-> tasks[t].time_credit_offer], ledger) >= 1

\* C6 witness: a task is COMPLETED.
C6_Witness ==
    \E t \in DOMAIN tasks : tasks[t].state = COMPLETED

\* C7: when no complete call is executing for a task, the requester has been
\* debited and the acceptor credited for the task only if the task is stored
\* as COMPLETED.
C7_PaidImpliesCompleted ==
    \A t \in DOMAIN tasks :
       ( /\ \A p \in Procs : ~(pc[p] = "complete_await" /\ req[p].task = t)
         /\ Settlements(t) # {} )
       => tasks[t].state = COMPLETED

\* C8: over all complete calls, the offer of a task is transferred from its
\* requester to its acceptor at most once.
C8_NoDoubleSettlement ==
    \A t \in TaskIds : SumCopies(Settlements(t)) <= 1

\* C9: start or complete by a caller other than the stored acceptor, and
\* cancel by a caller other than the requester, on a task in the precondition
\* state of the operation, is answered 403 Forbidden in the same step, which
\* changes no task, no balance and requests no transfer.
C9_ForbiddenChangesNothing ==
    [][\A p \in Procs :
          ( /\ Arrives(p)
            /\ req'[p].task \in DOMAIN tasks
            /\ \/ /\ req'[p].op = "start"
                  /\ tasks[req'[p].task].state = PENDING
                  /\ req'[p].user # tasks[req'[p].task].accepted_by_user_id
               \/ /\ req'[p].op = "complete"
                  /\ tasks[req'[p].task].state = IN_PROGRESS
                  /\ req'[p].user # tasks[req'[p].task].accepted_by_user_id
               \/ /\ req'[p].op = "cancel"
                  /\ tasks[req'[p].task].state \in {OPEN, PENDING}
                  /\ req'[p].user # tasks[req'[p].task].requested_by_user_id )
          => /\ pc'[p] = "done"
             /\ res'[p] = HTTPException(403, "Forbidden")
             /\ NoEffect
             /\ xfer' = xfer]_vars

\* C9 witness: a complete by a non-acceptor on an IN_PROGRESS task was
\* answered Forbidden.
C9_Witness ==
    \E p \in Procs :
       /\ Answered(p, "complete", "Forbidden")
       /\ tasks[req[p].task].state = IN_PROGRESS
       /\ req[p].user # tasks[req[p].task].accepted_by_user_id

\* C10: update, accept, start, complete or cancel on a task whose state is
\* not a precondition state of the operation is answered
\* InvalidStateTransition in the same step, which changes no task record
\* (updated_at included), no balance and requests no transfer.
C10_InvalidStateChangesNothing ==
    [][\A p \in Procs :
          ( /\ Arrives(p)
            /\ req'[p].op \in LifecycleOps
            /\ req'[p].task \in DOMAIN tasks
            /\ ~ValidPrecondition(req'[p].op, tasks[req'[p].task].state) )
          => /\ pc'[p] = "done"
             /\ res'[p] = HTTPException(400, "InvalidStateTransition")
             /\ NoEffect
             /\ xfer' = xfer]_vars

\* C10 witness: a cancel on a COMPLETED task was answered
\* InvalidStateTransition.
C10_Witness ==
    \E p \in Procs :
       /\ Answered(p, "cancel", "InvalidStateTransition")
       /\ tasks[req[p].task].state = COMPLETED

\* The requirements of section 4.2 on a transfer request x, in the store as
\* it stands, and the error kind a request that misses one is to be given.
TransferValid(x) ==
    /\ x.amount > 0
    /\ x.from_user_id \in DOMAIN users
    /\ x.to_user_id \in DOMAIN users
    /\ users[x.from_user_id].time_credits >= x.amount

TransferError(x) ==
    IF x.amount <= 0 THEN "BadRequest"
    ELSE IF x.from_user_id \notin DOMAIN users \/ x.to_user_id \notin DOMAIN users
      THEN "UserNotFound"
    ELSE "InsufficientFunds"

\* C11: with the requests run one at a time, a transfer call that misses a
\* requirement (amount > 0, both parties stored, balance(from) >= amount)
\* changes no balance at any of its steps, is failed by the service with
\* BadRequest, UserNotFound or InsufficientFunds respectively and is answered
\* with that error; a call reaches its writes and the answer 200 only when
\* the requirements held.
C11_TransferContract ==
    [][\A p \in Procs :
          pc[p] = "transfer_await" =>
             /\ (xfer[p].tpc \in {"req", "read_to"} /\ ~TransferValid(xfer[p]))
                   => /\ users' = users
                      /\ xfer'[p].tpc \in {"req", "read_to", "fail"}
                      /\ xfer'[p].tpc = "fail"
                           => xfer'[p].detail = TransferError(xfer[p])
             /\ xfer[p].tpc = "fail"
                   => /\ users' = users
                      /\ xfer'[p].tpc \in {"fail", "none"}
                      /\ pc'[p] # "transfer_await"
                           => /\ pc'[p] = "done"
                              /\ res'[p].code # 200
                              /\ res'[p].kind = xfer[p].detail
             /\ (xfer[p].tpc = "read_to" /\ xfer'[p].tpc = "write_from")
                   => TransferValid(xfer[p])
             /\ (pc'[p] = "done" /\ res'[p] = Ok)
                   => /\ xfer[p].tpc = "ok"
                      /\ xfer[p].amount > 0
                      /\ xfer[p].sender_credits >= xfer[p].amount
                      /\ {xfer[p].from_user_id, xfer[p].to_user_id} \subseteq DOMAIN users]_vars

\* C11 witness: a transfer of more than the sender holds was answered
\* InsufficientFunds.
C11_Witness ==
    \E p \in Procs :
       /\ Answered(p, "transfer", "InsufficientFunds")
       /\ req[p].user \in DOMAIN users
       /\ req[p].to_user \in DOMAIN users
       /\ users[req[p].user].time_credits < req[p].amount

C13_BalancesNonNegative ==
    \A u \in DOMAIN users : users[u].time_credits \in Nat

\* C13 witness: two transfers that debit the same sender, of amounts the
\* sender could not pay one after the other, have both been applied.
C13_Witness ==
    \E e \in BagToSet(ledger) :
       /\ CopiesIn(e, ledger) >= 2
       /\ e.from_user_id # e.to_user_id
       /\ 2 * e.amount > INITIAL_TIME_CREDITS

\* C14: every stored task has time_credit_offer > 0.
C14_OfferPositive ==
    \A t \in DOMAIN tasks : tasks[t].time_credit_offer > 0

\* C14 witness: a task whose offer an update replaced has gone on through
\* the whole-record writes of the later operations.
C14_Witness ==
    \E t \in DOMAIN tasks :
       /\ tasks[t].time_credit_offer \notin Offers
       /\ tasks[t].state \in {IN_PROGRESS, COMPLETED}

\* C15: once the stored accepted_by_user_id of a task holds a user id, no
\* step changes it.
C15_AcceptorSetOnce ==
    [][\A t \in DOMAIN tasks :
          tasks[t].accepted_by_user_id # ""
             => /\ t \in DOMAIN tasks'
                /\ tasks'[t].accepted_by_user_id = tasks[t].accepted_by_user_id]_vars

\* C16: once the stored state of a task is COMPLETED or CANCELLED, no step
\* changes a field of its record or removes it.
C16_TerminalFrozen ==
    [][\A t \in DOMAIN tasks :
          tasks[t].state \in {COMPLETED, CANCELLED}
             => /\ t \in DOMAIN tasks'
                /\ tasks'[t] = tasks[t]]_vars

\* C17: when create or accept resumes from the user-existence check, it
\* either answers 200, and then the referenced user is stored, or answers
\* UserNotFound and writes no task and no index entry; for a user that is
\* not stored it answers UserNotFound.
C17_UnconfirmedUserRejected ==
    [][\A p \in Procs :
          (pc[p] \in {"create_await", "accept_await"} /\ pc'[p] # pc[p])
             => /\ pc'[p] = "done"
                /\ \/ /\ res'[p] = Ok
                      /\ req[p].user \in DOMAIN users
                   \/ /\ res'[p] = HTTPException(404, "UserNotFound")
                      /\ NoEffect
                      /\ accepts' = accepts
                /\ req[p].user \notin DOMAIN users
                      => res'[p] = HTTPException(404, "UserNotFound")]_vars

\* C17 witness: an accept by a user that is not stored was answered
\* UserNotFound, and the task is OPEN without an acceptor.
C17_Witness ==
    \E p \in Procs :
       /\ Answered(p, "accept", "UserNotFound")
       /\ req[p].user \notin DOMAIN users
       /\ tasks[req[p].task].state = OPEN
       /\ tasks[req[p].task].accepted_by_user_id = ""

\* C18: a create with an offer <= 0, and an update of an OPEN task whose
\* patch carries an offer <= 0, is answered BadRequest in the same step,
\* which writes no task (no title or description of the patch either) and
\* no index entry.
C18_NonPositiveOfferRejected ==
    [][\A p \in Procs :
          ( /\ Arrives(p)
            /\ \/ /\ req'[p].op = "create"
                  /\ req'[p].amount <= 0
               \/ /\ req'[p].op = "update"
                  /\ req'[p].task \in DOMAIN tasks
                  /\ tasks[req'[p].task].state = OPEN
                  /\ req'[p].patch.time_credit_offer # NoOffer
                  /\ req'[p].patch.time_credit_offer[1] <= 0 )
          => /\ pc'[p] = "done"
             /\ res'[p] = HTTPException(400, "BadRequest")
             /\ NoEffect]_vars

\* C18 witness: an update that carried a new title with an offer of 0 was
\* answered BadRequest, and the stored title is the one of the creation.
C18_Witness ==
    \E p \in Procs :
       /\ Answered(p, "update", "BadRequest")
       /\ req[p].patch.title # "None"
       /\ tasks[req[p].task].title # req[p].patch.title
       /\ tasks[req[p].task].state = OPEN

ErrorKinds ==
    {"NotFound", "InvalidStateTransition", "Forbidden", "BadRequest",
     "UserNotFound", "TransferFailed"}

OutcomeCodes == {400, 403, 404}

\* Some lifecycle call can be answered, from the present state, with the
\* error kind under the outcome code.
Reports(kind, code) ==
    ENABLED (\E p \in Procs :
                /\ Begin(p) \/ Step(p)
                /\ pc'[p] = "done"
                /\ res'[p] = HTTPException(code, kind))

\* C20: no state lets the lifecycle operations answer two different error
\* kinds with the same outcome code.
C20_DistinctOutcomeCodes ==
    \A k1, k2 \in ErrorKinds, c \in OutcomeCodes :
       (k1 # k2 /\ Reports(k1, c)) => ~Reports(k2, c)

\* The error the fixed order of checks (existence, state precondition, actor
\* guard, domain validation) gives a lifecycle request r in the present
\* store before any await, "none" when all of them pass.
FirstFailingCheck(r) ==
    IF r.task \notin DOMAIN tasks THEN "NotFound"
    ELSE IF ~ValidPrecondition(r.op, tasks[r.task].state)
      THEN "InvalidStateTransition"
    ELSE IF r.op \in {"start", "complete"}
            /\ r.user # tasks[r.task].accepted_by_user_id
      THEN "Forbidden"
    ELSE IF r.op = "cancel" /\ r.user # tasks[r.task].requested_by_user_id
      THEN "Forbidden"
    ELSE IF r.op = "update"
            /\ r.patch.time_credit_offer # NoOffer
            /\ r.patch.time_credit_offer[1] <= 0
      THEN "BadRequest"
    ELSE "none"

\* C21: a lifecycle request for which some of the checks existence, state
\* precondition, actor guard and offer validation fail is answered, in the
\* step it arrives, with the error of the earliest failing one and changes
\* nothing; a request that passes them is not answered with an error in that
\* step; UserNotFound and TransferFailed are answered only after the await
\* that follows these checks, and a transfer is requested only by a complete
\* that passed them.
C21_EarliestFailingCheck ==
    [][\A p \in Procs :
          /\ (Arrives(p) /\ req'[p].op \in LifecycleOps)
                => /\ FirstFailingCheck(req'[p]) # "none"
                        => /\ pc'[p] = "done"
                           /\ res'[p].kind = FirstFailingCheck(req'[p])
                           /\ NoEffect
                           /\ xfer' = xfer
                   /\ FirstFailingCheck(req'[p]) = "none"
                        => (pc'[p] = "done" => res'[p] = Ok)
                   /\ xfer'[p].tpc # "none"
                        => /\ req'[p].op = "complete"
                           /\ FirstFailingCheck(req'[p]) = "none"
          /\ (pc'[p] = "done" /\ pc[p] # "done"
                /\ res'[p].kind \in {"UserNotFound", "TransferFailed"}
                /\ req'[p].op \in LifecycleOps)
                => /\ res'[p].kind = "UserNotFound" => pc[p] = "accept_await"
                   /\ res'[p].kind = "TransferFailed" => pc[p] = "complete_await"]_vars

\* C21 witness: a start by a user that is not the acceptor, on an OPEN task,
\* was answered InvalidStateTransition.
C21_Witness ==
    \E p \in Procs :
       /\ Answered(p, "start", "InvalidStateTransition")
       /\ tasks[req[p].task].state = OPEN
       /\ req[p].user # tasks[req[p].task].accepted_by_user_id

\* C22: the stored accepted_by_user_id of a task is empty if and only if the
\* task is OPEN, or is CANCELLED and no accept of it was ever answered 200.
C22_AcceptorUnsetIffOpen ==
    \A t \in DOMAIN tasks :
       tasks[t].accepted_by_user_id = ""
          <=> \/ tasks[t].state = OPEN
              \/ /\ tasks[t].state = CANCELLED
                 /\ ~\E a \in accepts : a[1] = t

\* C22 witness: a task cancelled after it was accepted keeps its acceptor.
C22_Witness ==
    \E t \in DOMAIN tasks :
       /\ tasks[t].state = CANCELLED
       /\ tasks[t].accepted_by_user_id # ""
       /\ \E a \in accepts : a[1] = t

\* C23: a step changes the stored title, description, time_credit_offer or
\* requested_by_user_id of a task only if it is an update.
C23_OnlyUpdateChangesContent ==
    [][\A t \in DOMAIN tasks :
          ( /\ t \in DOMAIN tasks'
            /\ \/ tasks'[t].title # tasks[t].title
               \/ tasks'[t].description # tasks[t].description
               \/ tasks'[t].time_credit_offer # tasks[t].time_credit_offer
               \/ tasks'[t].requested_by_user_id # tasks[t].requested_by_user_id )
          => \E p \in Procs :
                /\ Arrives(p)
                /\ req'[p].op = "update"
                /\ req'[p].task = t]_vars

\* The sum of the stored balances of the users in S.
RECURSIVE SumCredits(_)
SumCredits(S) ==
    IF S = {} THEN 0
    ELSE LET u == CHOOSE x \in S : TRUE
         IN  users[u].time_credits + SumCredits(S \ {u})

\* C24: when no transfer call is open, the balances of all users sum to
\* INITIAL_TIME_CREDITS times the number of users.
C24_GlobalConservation ==
    (\A p \in Procs : xfer[p].tpc = "none")
       => SumCredits(DOMAIN users) = INITIAL_TIME_CREDITS * Cardinality(DOMAIN users)

====
